---- MODULE Spec2Model ----
(***************************************************************************)
(* Batch variational inference for Poisson matrix factorisation: the flat  *)
(* estimator PoissonMF (src/pmf.py) and the hierarchical estimator         *)
(* HPoissonMF (src/hpmf.py).                                               *)
(*                                                                         *)
(* Real-valued matrix entries are modelled as symbolic terms.  A term      *)
(* names the expression that produced the number (the random draw at       *)
(* initialisation, the clamp constant 1e-5, an update formula, a quotient  *)
(* shape/rate) and the update call that computed it, so that two entries   *)
(* are equal in the model exactly when the code computed them by the same  *)
(* expression in the same call.  The held-out log-likelihood is an         *)
(* extended real: a scaled integer, -inf or NaN.                           *)
(***************************************************************************)
EXTENDS Integers, Sequences, FiniteSets, TLC

(* ------------------------------- bounds -------------------------------- *)

\* number of items I (rows of the item matrices)
NItems == 2
\* number of latent components K
NComp == 2
\* largest max_iter a constructor call is given
MaxIterBound == 3
\* finite held-out log-likelihoods range over -PllMax .. 0
PllMax == 1
\* direct calls of _update_items on one object
MaxCalls == 3
\* largest max_iter of a fit under converge_separately
MaxIterSep == 2
\* rounds of converge_separately the model runs before fit returns
MaxRounds == 2
\* largest number of rows or of columns of a matrix handed to _inner
MaxDim == 2
\* largest number of index pairs handed to _inner
MaxPairs == 2

Items == 0 .. (NItems - 1)
Comps == 0 .. (NComp - 1)
\* entry (i, k) of an I x K item matrix
Pos == Items \X Comps

(* ---------------------------- symbolic reals --------------------------- *)

\* an entry of a shape or rate matrix.  t names the expression, n the call
\* (tick) that computed it, c the index the expression depends on, src the
\* version of the other side's expectations the call read, hyp the version
\* of the hyperprior expectation in its rate term (0: none), xe the two
\* factors _xexplog multiplied for the reconstruction ratio, uf the user
\* factor and itf the item factor the expression multiplied
IV(t, n, c, src, hyp, xe, uf, itf) ==
  [t |-> t, n |-> n, c |-> c, src |-> src, hyp |-> hyp,
   xe |-> xe, uf |-> uf, itf |-> itf]

\* the entry of a matrix that is None
NoneV == IV("none", 0, 0, 0, 0, "", "", "")

\* the clamp constant small_num = 1e-5
small_num == IV("small_num", 0, 0, 0, 0, "", "", "")

\* an expectation entry: f names the function of (shape s, rate r)
EV(f, s, r) == [f |-> f, s |-> s, r |-> r]

NoneE == EV("none", NoneV, NoneV)

NoneMat == [p \in Pos |-> NoneV]

NoneEMat == [p \in Pos |-> NoneE]

\* _compute_expectations(alpha, beta) on matrices: (alpha / beta,
\* psi(alpha) - log(beta)) elementwise
compute_expectations_mean(alpha, beta) ==
  [p \in Pos |-> EV("mean", alpha[p], beta[p])]

compute_expectations_log(alpha, beta) ==
  [p \in Pos |-> EV("logmean", alpha[p], beta[p])]

\* the same on the user side, whose matrices are always written whole and
\* are modelled by one term each
compute_expectations_mean_t(alpha, beta) == EV("mean", alpha, beta)

compute_expectations_log_t(alpha, beta) == EV("logmean", alpha, beta)

\* a supplied dense 0/1 matrix used as an expectation (self.Eb = beta)
ObsMat(beta) == [p \in Pos |-> EV("obs", IV("beta", 0, beta[p], 0, 0, "", "", ""), NoneV)]

\* a supplied dense, strictly positive user matrix (self.Et = theta)
ObsTheta == EV("obs", IV("theta", 0, 0, 0, 0, "", "", ""), NoneV)

(* ---------------------------- extended reals --------------------------- *)

Fin(n) == [k |-> "fin", v |-> n]
NegInf == [k |-> "-inf", v |-> 0]
NaN == [k |-> "nan", v |-> 0]
PosInf == [k |-> "+inf", v |-> 0]

IsFinite(x) == x.k = "fin"

\* x > y on floats: false whenever an operand is NaN
Gt(x, y) ==
  CASE x.k = "nan" \/ y.k = "nan" -> FALSE
    [] x.k = "+inf" -> y.k # "+inf"
    [] x.k = "-inf" -> FALSE
    [] y.k = "+inf" -> FALSE
    [] y.k = "-inf" -> TRUE
    [] OTHER -> x.v > y.v

Abs(n) == IF n < 0 THEN -n ELSE n

(* ------------------------------ outcomes ------------------------------- *)

\* a call that returned, leaving the estimator in state s
Ok(s) == [ok |-> TRUE, err |-> "", self |-> s]

\* a call that raised e, leaving the estimator in state s
Raise(e, s) == [ok |-> FALSE, err |-> e, self |-> s]

\* flat index of entry (i, k) in a row-major I x K array
PosIdx(p) == p[1] * NComp + p[2]

\* beta.astype(bool) and its negation, as sets of entries
beta_bool(beta) == {p \in Pos : beta[p] # 0}

beta_bool_not(beta) == {p \in Pos : beta[p] = 0}

\* version (tick of the producing call) of the user expectations
VerT(self) == self.Et.s.n

(* ------------------------- PoissonMF (src/pmf.py) ---------------------- *)

\* PoissonMF._init_items
PMF_init_items(self, beta_given, beta, categorywise) ==
  IF beta_given /\ ~categorywise
  THEN [self EXCEPT !.Eb = ObsMat(beta), !.Elogb = NoneEMat,
                    !.gamma_b = NoneMat, !.rho_b = NoneMat, !.ver_b = 0]
  ELSE LET g == [p \in Pos |-> IV("init_gamma_b", self.tick, PosIdx(p), 0, 0, "", "", "")]
           r == [p \in Pos |-> IV("init_rho_b", self.tick, PosIdx(p), 0, 0, "", "", "")]
       IN [self EXCEPT !.gamma_b = g, !.rho_b = r,
                       !.Eb = compute_expectations_mean(g, r),
                       !.Elogb = compute_expectations_log(g, r),
                       !.ver_b = self.tick]

\* PoissonMF._init_users
PMF_init_users(self, theta_given) ==
  IF theta_given
  THEN [self EXCEPT !.Et = ObsTheta, !.Elogt = NoneE,
                    !.gamma_t = NoneV, !.rho_t = NoneV]
  ELSE LET g == IV("init_gamma_t", self.tick, 0, 0, 0, "", "", "")
           r == IV("init_rho_t", self.tick, 0, 0, 0, "", "", "")
       IN [self EXCEPT !.gamma_t = g, !.rho_t = r,
                       !.Et = compute_expectations_mean_t(g, r),
                       !.Elogt = compute_expectations_log_t(g, r),
                       !.nInits = self.nInits + 1]

\* PoissonMF._xexplog: which two factors _inner multiplies, or the read of
\* a None log-expectation that raises inside np.exp
PMF_xexplog(self, beta_given, observed_item_attributes, observed_user_preferences) ==
  IF beta_given /\ observed_item_attributes
  THEN IF self.Elogt = NoneE THEN [ok |-> FALSE, err |-> "np.exp(Elogt=None)", xe |-> ""]
       ELSE [ok |-> TRUE, err |-> "", xe |-> "Eb*expElogt"]
  ELSE IF observed_user_preferences
  THEN IF self.Elogb = NoneEMat THEN [ok |-> FALSE, err |-> "np.exp(Elogb=None)", xe |-> ""]
       ELSE [ok |-> TRUE, err |-> "", xe |-> "expElogb*Et"]
  ELSE IF self.Elogb = NoneEMat THEN [ok |-> FALSE, err |-> "np.exp(Elogb=None)", xe |-> ""]
  ELSE IF self.Elogt = NoneE THEN [ok |-> FALSE, err |-> "np.exp(Elogt=None)", xe |-> ""]
  ELSE [ok |-> TRUE, err |-> "", xe |-> "expElogb*expElogt"]

\* which item factor PoissonMF._update_users multiplies into the shape
PMF_user_item_factor(beta_given, only_update) ==
  IF beta_given \/ only_update = "users" THEN "Eb" ELSE "expElogb"

\* PoissonMF._update_users
PMF_update_users(self0, beta_given, observed_user_preferences, only_update) ==
  LET self == [self0 EXCEPT !.tick = self0.tick + 1, !.nUsers = self0.nUsers + 1]
      x == PMF_xexplog(self, beta_given, FALSE, observed_user_preferences)
      uf == IF observed_user_preferences THEN "Et" ELSE "expElogt"
      itf == PMF_user_item_factor(beta_given, only_update)
      g == IV("gamma_t", self.tick, 0, self.ver_b, 0, x.xe, uf, itf)
      r == IV("rho_t", self.tick, 0, self.ver_b, 0, "", "", "Eb")
  IN IF ~x.ok THEN Raise(x.err, self)
     ELSE IF uf = "expElogt" /\ self.Elogt = NoneE THEN Raise("np.exp(Elogt=None)", self)
     ELSE IF itf = "expElogb" /\ self.Elogb = NoneEMat THEN Raise("np.exp(Elogb=None)", self)
     ELSE Ok([self EXCEPT !.gamma_t = g, !.rho_t = r,
                          !.Et = compute_expectations_mean_t(g, r),
                          !.Elogt = compute_expectations_log_t(g, r)])

\* rho_b_updated_reshaped[i, k]: np.repeat repeats each of the K sums I
\* times in a row, and the reshape to (I, K) reads that row by row
PMF_rho_reshaped_comp(p) == PosIdx(p) \div NItems

\* a masked call that writes the complement of the subset it was asked for
MaskSubset_complement(beta, update) ==
  IF update = "in_category" THEN beta_bool_not(beta)
  ELSE IF update = "out_category" THEN beta_bool(beta)
  ELSE {}

\* the entries a masked call writes
MaskSubset(beta, update) ==
  IF update = "in_category" THEN beta_bool(beta)
  ELSE IF update = "out_category" THEN beta_bool_not(beta)
  ELSE {}

\* PoissonMF._update_items
PMF_update_items(self0, beta_given, beta, categorywise, observed_user_preferences, update) ==
  LET self == [self0 EXCEPT !.tick = self0.tick + 1, !.nItems = self0.nItems + 1]
      x == PMF_xexplog(self, FALSE, FALSE, observed_user_preferences)
      masked == beta_given /\ categorywise /\ update # "default"
      uf == IF masked /\ observed_user_preferences THEN "Et" ELSE "expElogt"
      gu == [p \in Pos |-> IV("gamma_b", self.tick, PosIdx(p), VerT(self), 0, x.xe, uf, "expElogb")]
      sel == MaskSubset(beta, update)
      gm == [p \in Pos |-> IF p \in sel THEN gu[p] ELSE self.gamma_b[p]]
      rm == [p \in Pos |->
               IF p \in sel
               THEN IV("rho_b", self.tick, PMF_rho_reshaped_comp(p), VerT(self), 0, "", "Et", "")
               ELSE self.rho_b[p]]
      ru == [p \in Pos |-> IV("rho_b", self.tick, p[2], VerT(self), 0, "", "Et", "")]
      fin(g, r) == Ok([self EXCEPT !.gamma_b = g, !.rho_b = r,
                                   !.Eb = compute_expectations_mean(g, r),
                                   !.Elogb = compute_expectations_log(g, r),
                                   !.ver_b = self.tick])
  IN IF ~x.ok THEN Raise(x.err, self)
     ELSE IF self.Elogb = NoneEMat THEN Raise("np.exp(Elogb=None)", self)
     ELSE IF uf = "expElogt" /\ self.Elogt = NoneE THEN Raise("np.exp(Elogt=None)", self)
     ELSE IF masked
     THEN IF self.rho_b = NoneMat THEN Raise("None.shape", self)
          ELSE fin(gm, rm)
     ELSE fin(gu, ru)

(* ------------------------ HPoissonMF (src/hpmf.py) --------------------- *)

\* version of a hyperprior expectation: the tick of the call that set its rate
VerH(e) == e.r.n

\* HPoissonMF._init_users: always variational, theta is never looked at
HPMF_init_users(self) ==
  LET g == IV("init_gamma_t", self.tick, 0, 0, 0, "", "", "")
      r == IV("init_rho_t", self.tick, 0, 0, 0, "", "", "")
  IN [self EXCEPT !.gamma_t = g, !.rho_t = r,
                  !.Et = compute_expectations_mean_t(g, r),
                  !.Elogt = compute_expectations_log_t(g, r),
                  !.nInits = self.nInits + 1,
                  !.Eksi = EV("mean", IV("init_gamma_ksi", self.tick, 0, 0, 0, "", "", ""),
                                      IV("init_rho_ksi", self.tick, 0, 0, 0, "", "", ""))]

\* HPoissonMF._init_items: a supplied beta is always installed as observed
HPMF_init_items(self, beta_given, beta) ==
  IF beta_given
  THEN [self EXCEPT !.Eb = ObsMat(beta), !.Elogb = NoneEMat,
                    !.gamma_b = NoneMat, !.rho_b = NoneMat, !.ver_b = 0,
                    !.Eeta = NoneE]
  ELSE LET g == [p \in Pos |-> IV("init_gamma_b", self.tick, PosIdx(p), 0, 0, "", "", "")]
           r == [p \in Pos |-> IV("init_rho_b", self.tick, PosIdx(p), 0, 0, "", "", "")]
       IN [self EXCEPT !.gamma_b = g, !.rho_b = r,
                       !.Eb = compute_expectations_mean(g, r),
                       !.Elogb = compute_expectations_log(g, r),
                       !.ver_b = self.tick,
                       !.Eeta = EV("mean", IV("init_gamma_eta", self.tick, 0, 0, 0, "", "", ""),
                                           IV("init_rho_eta", self.tick, 0, 0, 0, "", "", ""))]

\* HPoissonMF._xexplog
HPMF_xexplog(self, beta_given) ==
  IF beta_given
  THEN IF self.Elogt = NoneE THEN [ok |-> FALSE, err |-> "np.exp(Elogt=None)", xe |-> ""]
       ELSE [ok |-> TRUE, err |-> "", xe |-> "Eb*expElogt"]
  ELSE IF self.Elogb = NoneEMat THEN [ok |-> FALSE, err |-> "np.exp(Elogb=None)", xe |-> ""]
  ELSE IF self.Elogt = NoneE THEN [ok |-> FALSE, err |-> "np.exp(Elogt=None)", xe |-> ""]
  ELSE [ok |-> TRUE, err |-> "", xe |-> "expElogb*expElogt"]

\* which item factor HPoissonMF._update_users multiplies into the shape
HPMF_user_item_factor(beta_given, categorywise) ==
  IF beta_given /\ ~categorywise THEN "Eb" ELSE "expElogb"

\* a user update that leaves the user-activity hyperprior as it was
HPMF_update_users_keeps_ksi(self0, beta_given, categorywise) ==
  LET self == [self0 EXCEPT !.tick = self0.tick + 1, !.nUsers = self0.nUsers + 1]
      x == HPMF_xexplog(self, beta_given)
      itf == HPMF_user_item_factor(beta_given, categorywise)
      g == IV("gamma_t", self.tick, 0, self.ver_b, 0, x.xe, "expElogt", itf)
      r == IV("rho_t", self.tick, 0, self.ver_b, VerH(self.Eksi), "", "", "Eb")
  IN IF ~x.ok THEN Raise(x.err, self)
     ELSE IF itf = "expElogb" /\ self.Elogb = NoneEMat THEN Raise("np.exp(Elogb=None)", self)
     ELSE Ok([self EXCEPT !.gamma_t = g, !.rho_t = r,
                          !.Et = compute_expectations_mean_t(g, r),
                          !.Elogt = compute_expectations_log_t(g, r)])

\* HPoissonMF._update_users; _update never passes categorywise, so it is
\* the default False
HPMF_update_users(self0, beta_given, categorywise) ==
  LET self == [self0 EXCEPT !.tick = self0.tick + 1, !.nUsers = self0.nUsers + 1]
      x == HPMF_xexplog(self, beta_given)
      itf == HPMF_user_item_factor(beta_given, categorywise)
      g == IV("gamma_t", self.tick, 0, self.ver_b, 0, x.xe, "expElogt", itf)
      r == IV("rho_t", self.tick, 0, self.ver_b, VerH(self.Eksi), "", "", "Eb")
      ksi == EV("mean", IV("a_ksi+K*a", 0, 0, 0, 0, "", "", ""),
                        IV("rho_ksi", self.tick, 0, self.tick, 0, "", "Et", ""))
  IN IF ~x.ok THEN Raise(x.err, self)
     ELSE IF itf = "expElogb" /\ self.Elogb = NoneEMat THEN Raise("np.exp(Elogb=None)", self)
     ELSE Ok([self EXCEPT !.gamma_t = g, !.rho_t = r,
                          !.Et = compute_expectations_mean_t(g, r),
                          !.Elogt = compute_expectations_log_t(g, r),
                          !.Eksi = ksi])

\* HPoissonMF._update_items
HPMF_update_items(self0, beta_given, beta, categorywise, update) ==
  LET self == [self0 EXCEPT !.tick = self0.tick + 1, !.nItems = self0.nItems + 1]
      x == HPMF_xexplog(self, FALSE)
      masked == beta_given /\ categorywise
      gu == [p \in Pos |-> IV("gamma_b", self.tick, PosIdx(p), VerT(self), 0,
                              x.xe, "expElogt", "expElogb")]
      ru == [p \in Pos |-> IV("rho_b", self.tick, PosIdx(p), VerT(self),
                              VerH(self.Eeta), "", "Et", "")]
      sel == MaskSubset(beta, update)
      gm == [p \in Pos |-> IF p \in sel THEN gu[p] ELSE self.gamma_b[p]]
      rm == [p \in Pos |-> IF p \in sel THEN ru[p] ELSE self.rho_b[p]]
      eta == EV("mean", IV("c_eta+K*c", 0, 0, 0, 0, "", "", ""),
                        IV("rho_eta", self.tick, 0, self.tick, 0, "", "", "Eb"))
      fin(g, r) == Ok([self EXCEPT !.gamma_b = g, !.rho_b = r,
                                   !.Eb = compute_expectations_mean(g, r),
                                   !.Elogb = compute_expectations_log(g, r),
                                   !.ver_b = self.tick,
                                   !.Eeta = eta])
  IN IF ~x.ok THEN Raise(x.err, self)
     ELSE IF masked
     THEN IF update # "default" /\ self.gamma_b = NoneMat THEN Raise("None[mask]", self)
          ELSE fin(gm, rm)
     ELSE fin(gu, ru)

(* ------------------------------ evaluation ----------------------------- *)

\* row i of the item expectation is a supplied all-zero row
RowZero(Eb, i) == \A k \in Comps : Eb[<<i, k>>].f = "obs" /\ Eb[<<i, k>>].s.c = 0

\* pred_loglikeli: mean(X_new * log(X_pred) - X_pred) over the held-out
\* triples, each given by its item and its count.  The mean of no triple is
\* NaN; a predicted value is zero when the item's row of Eb is zero (the
\* user expectations are positive), and then log gives -inf, and
\* 0 * -inf gives NaN.  Any other outcome is a finite number.
pred_loglikeli(self, vad) ==
  IF vad = {} THEN {NaN}
  ELSE IF \E t \in vad : RowZero(self.Eb, t[1]) /\ t[2] = 0 THEN {NaN}
  ELSE IF \E t \in vad : RowZero(self.Eb, t[1]) THEN {NegInf}
  ELSE {Fin(v) : v \in (0 - PllMax) .. 0}

\* self.tol, as a fraction: the constructor is given tol = 1/2, so that the
\* integer log-likelihoods fall on both sides of it
tol == [num |-> 1, den |-> 2]

\* a comparison that takes the quotient by old_pll = -inf as below tol
ImprovementBelowTol_inf_is_below(pred_ll, old_pll) ==
  CASE old_pll.k = "-inf" -> TRUE
    [] old_pll.k # "fin" -> FALSE
    [] pred_ll.k = "-inf" -> TRUE
    [] pred_ll.k # "fin" -> FALSE
    [] old_pll.v = 0 -> pred_ll.v < 0
    [] OTHER -> (pred_ll.v - old_pll.v) * tol.den < tol.num * Abs(old_pll.v)

\* improvement = (pred_ll - old_pll) / abs(old_pll); improvement < self.tol.
\* pred_ll is not NaN here.  With old_pll = -inf the quotient is NaN and
\* compares false; a finite old_pll of 0 divides to +inf, -inf or NaN.
ImprovementBelowTol(pred_ll, old_pll) ==
  CASE old_pll.k # "fin" -> FALSE
    [] pred_ll.k = "-inf" -> TRUE
    [] pred_ll.k # "fin" -> FALSE
    [] old_pll.v = 0 -> pred_ll.v < 0
    [] OTHER -> (pred_ll.v - old_pll.v) * tol.den < tol.num * Abs(old_pll.v)

\* a stop test that already accepts iteration min_iter
Converged_at_min_iter(pred_ll, old_pll, i, min_iter) ==
  ImprovementBelowTol(pred_ll, old_pll) /\ i >= min_iter

\* the stop test of _update
Converged(pred_ll, old_pll, i, min_iter) ==
  ImprovementBelowTol(pred_ll, old_pll) /\ i > min_iter

(* ------------------------------- frames -------------------------------- *)

\* best_pll_dict = dict(pred_ll = -np.inf): the keys best_* are absent
EmptyBest ==
  [pred_ll |-> NegInf, has |-> FALSE, best_Eb |-> NoneEMat, best_Elogb |-> NoneEMat,
   best_Et |-> NoneE, best_Elogt |-> NoneE, ver_b |-> 0]

\* the locals of one call of _update
NewFrame(update, observed_user_preferences, zero, only_update, initialize_users) ==
  [update |-> update, i |-> 0, old_pll |-> NegInf, pred_ll |-> NegInf,
   observed_user_preferences |-> observed_user_preferences,
   zero_untrained_components |-> zero,
   only_update |-> only_update, initialize_users |-> initialize_users,
   cached |-> "none", gamma_b_cache |-> NoneMat, rho_b_cache |-> NoneMat,
   best_pll_dict |-> EmptyBest]

\* the attributes of an estimator before fit
NewSelf ==
  [gamma_b |-> NoneMat, rho_b |-> NoneMat, Eb |-> NoneEMat, Elogb |-> NoneEMat,
   gamma_t |-> NoneV, rho_t |-> NoneV, Et |-> NoneE, Elogt |-> NoneE,
   Eksi |-> NoneE, Eeta |-> NoneE, ver_b |-> 0,
   tick |-> 0, nUsers |-> 0, nItems |-> 0, nInits |-> 0]

(* ------------------------------- inputs -------------------------------- *)

ItemFitTypes ==
  {"default", "alternating_updates", "converge_in_category_first",
   "converge_out_category_first"}

\* category masks: every item has components of both categories
MaskOf(s) == [p \in Pos |-> IF (p[2] + s * p[1]) % NComp = 0 THEN 1 ELSE 0]

Masks == {MaskOf(0), MaskOf(1)}

\* an observed item matrix whose item 0 has an all-zero row
ZeroRowBeta == [p \in Pos |-> IF p[1] = 0 THEN 0 ELSE 1]

\* the argument beta: False, or a dense matrix
BetaArgs ==
  {[given |-> FALSE, m |-> [p \in Pos |-> 0]]}
    \cup {[given |-> TRUE, m |-> b] : b \in Masks \cup {ZeroRowBeta}}

\* the argument vad: no held-out triple, or one triple (item, count)
VadSets == {{}, {<<0, 1>>}, {<<NItems - 1, 1>>}}

MinIters == {0 - 1, 1}

\* the argument vad of a fit under converge_separately
SepVadSets == {{}, {<<0, 1>>}}

(* -------------------------------- state -------------------------------- *)

VARIABLES
  ctor,   \* the constructor's arguments: variant, max_iter, min_iter and the
          \* signs of the hyperparameters a and c
  cfg,    \* the arguments of fit
  self,   \* the estimator's attributes
  fr,     \* the locals of the running call of _update
  stack,  \* the suspended calls of _update below it
  pc,     \* where fit is: the next block of the loop, or how it ended
  err,    \* the exception that ended fit
  out,    \* what the outermost _update returned
  fitl,   \* the locals of fit under converge_separately
  ker,    \* a call of the kernel _inner: its arguments and its result
  rf,     \* the arrays of a fit and the names bound to them
  h       \* history: what the fit has done so far

vars == <<ctor, cfg, self, fr, stack, pc, err, out, fitl, ker, rf, h>>

NoCfg ==
  [beta_given |-> FALSE, beta |-> [p \in Pos |-> 0], theta_given |-> FALSE,
   categorywise |-> FALSE, item_fit_type |-> "default",
   user_fit_type |-> "default", zero_untrained_components |-> FALSE, vad |-> {}]

NoOut == [returned |-> FALSE, pred_ll |-> NegInf, best_pll_dict |-> EmptyBest]

\* pmf.py 138: best_validation_ll = -np.inf; best_Eb and best_Et are unbound
NoFit ==
  [switch_idx |-> 0, best_validation_ll |-> NegInf, bound |-> FALSE,
   best_Eb |-> NoneEMat, best_Et |-> NoneE, ver_b |-> 0]

\* the best evaluation of the running round: none yet
NoRoundBest ==
  [pred_ll |-> NegInf, Eb |-> NoneEMat, Et |-> NoneE, Elogb |-> NoneEMat, Elogt |-> NoneE]

\* a recorded snapshot: the arrays it names and, as history, what they held
\* when it was recorded (op: the count of updates made by then)
NoSnap ==
  [has |-> FALSE, op |-> 0,
   ref |-> [Eb |-> 0, Elogb |-> 0, Et |-> 0, Elogt |-> 0],
   at |-> [Eb |-> <<>>, Elogb |-> <<>>, Et |-> <<>>, Elogt |-> <<>>]]

\* no array allocated yet; a name bound to 0 is None
NoRefs ==
  [pc |-> "constructed", sep |-> FALSE, mem |-> <<>>, ops |-> 0,
   gamma_b |-> 0, rho_b |-> 0, Eb |-> 0, Elogb |-> 0,
   gamma_t |-> 0, rho_t |-> 0, Et |-> 0, Elogt |-> 0,
   c |-> NoCfg, f |-> NewFrame("default", FALSE, FALSE, "None", "none"),
   cache |-> [gamma_b |-> 0, rho_b |-> 0], suspended |-> <<>>,
   dict |-> NoSnap, switch_idx |-> 0, kept |-> NoSnap]

\* no call of _inner yet
NoKer ==
  [beta |-> [nrows |-> 0, ncols |-> 0], theta |-> [nrows |-> 0, ncols |-> 0],
   rows |-> <<>>, cols |-> <<>>, data |-> <<>>, outcome |-> "none"]

NoHist ==
  [iters |-> 0, runs |-> 0, round_best |-> NoRoundBest,
   last |-> [i |-> 0, pred_ll |-> NegInf, old_pll |-> NegInf, how |-> "",
             update |-> "default"]]

Init ==
  /\ ctor \in [variant : {"pmf", "hpmf"}, max_iter : 1 .. MaxIterBound,
               min_iter : MinIters, a : {"positive"}, c : {"positive"}]
  /\ cfg = NoCfg
  /\ self = NewSelf
  /\ fr = NewFrame("default", FALSE, FALSE, "None", "none")
  /\ stack = <<>>
  /\ pc = "constructed"
  /\ err = ""
  /\ out = NoOut
  /\ fitl = NoFit
  /\ ker = NoKer
  /\ rf = NoRefs
  /\ h = NoHist

(* ------------------------------- fit ----------------------------------- *)

\* fit with user_fit_type = 'default': _init_items, _init_users, then the
\* call of _update (pmf.py 184-188, hpmf.py 143-145)
Fit ==
  /\ pc = "constructed"
  /\ \E b \in BetaArgs, theta_given \in BOOLEAN, categorywise \in BOOLEAN,
        ift \in ItemFitTypes, zero \in BOOLEAN, vad \in VadSets :
       /\ (categorywise /\ b.given) => b.m \in Masks
       /\ cfg' = [beta_given |-> b.given, beta |-> b.m, theta_given |-> theta_given,
                  categorywise |-> categorywise, item_fit_type |-> ift,
                  user_fit_type |-> "default",
                  zero_untrained_components |-> zero, vad |-> vad]
       /\ self' = IF ctor.variant = "pmf"
                  THEN PMF_init_users(PMF_init_items(self, b.given, b.m, categorywise),
                                      theta_given)
                  ELSE HPMF_init_users(HPMF_init_items(self, b.given, b.m))
       /\ fr' = NewFrame("default", FALSE, zero, "None", "none")
  /\ pc' = "users"
  /\ h' = [h EXCEPT !.runs = 1]
  /\ UNCHANGED <<ctor, stack, err, out, fitl, ker, rf>>

(* ------------------------- one iteration of _update -------------------- *)

\* a user block that also trains on the held-out triples
PMF_users_branch_reads_vad(s, f, c) ==
  LET res == PMF_update_users(s, c.beta_given, FALSE, "False")
  IN IF res.ok /\ c.vad # {}
     THEN Ok([res.self EXCEPT !.gamma_t.xe = "expElogb*expElogt+vad"])
     ELSE res

\* pmf.py 235-265: the user block of the loop body
PMF_users_branch(s, f, c) ==
  IF f.only_update = "items" \/ (f.observed_user_preferences /\ f.update # "default")
  THEN Ok(s)
  ELSE IF f.only_update = "users"
  THEN IF f.initialize_users = "default"
       THEN PMF_update_users(IF f.i = 0 THEN PMF_init_users(s, FALSE) ELSE s,
                             FALSE, FALSE, "users")
       ELSE IF f.initialize_users = "none"
       THEN PMF_update_users(s, FALSE, FALSE, "users")
       ELSE Ok(s)
  ELSE PMF_update_users(s, c.beta_given, FALSE, "False")

\* hpmf.py 182
HPMF_users_branch(s, f, c) == HPMF_update_users(s, c.beta_given, FALSE)

UsersStep ==
  /\ pc = "users"
  /\ LET res == IF ctor.variant = "pmf" THEN PMF_users_branch(self, fr, cfg)
                ELSE HPMF_users_branch(self, fr, cfg)
     IN /\ self' = res.self
        /\ pc' = IF res.ok THEN "items" ELSE "crashed"
        /\ err' = res.err
  /\ UNCHANGED <<ctor, cfg, fr, stack, out, fitl, h, ker, rf>>

\* the result of a block that also writes locals of _update
OkF(s, f) == [ok |-> TRUE, err |-> "", self |-> s, fr |-> f]

RaiseF(e, s, f) == [ok |-> FALSE, err |-> e, self |-> s, fr |-> f]

\* pmf.py 280-283 / 286-289: copy the entries of the subset aside, then
\* overwrite them with small_num in gamma_b and rho_b
ClampSubset(s, f, sub, which) ==
  IF s.gamma_b = NoneMat THEN RaiseF("None[mask]", s, f)
  ELSE OkF([s EXCEPT !.gamma_b = [p \in Pos |-> IF p \in sub THEN small_num ELSE s.gamma_b[p]],
                     !.rho_b = [p \in Pos |-> IF p \in sub THEN small_num ELSE s.rho_b[p]]],
           [f EXCEPT !.cached = which,
                     !.gamma_b_cache = [p \in Pos |-> IF p \in sub THEN s.gamma_b[p] ELSE NoneV],
                     !.rho_b_cache = [p \in Pos |-> IF p \in sub THEN s.rho_b[p] ELSE NoneV]])

\* pmf.py 275-289, hpmf.py 189-203
Clamp(s, f, c) ==
  IF ~c.beta_given THEN RaiseF("False.astype", s, f)
  ELSE IF c.item_fit_type = "converge_in_category_first"
  THEN ClampSubset(s, f, beta_bool_not(c.beta), "out_category")
  ELSE IF c.item_fit_type = "converge_out_category_first"
  THEN ClampSubset(s, f, beta_bool(c.beta), "in_category")
  ELSE OkF(s, f)

\* the iteration whose item block clamps: i == 0 in pmf.py 272
PMF_clamp_iteration == 0

\* i == 1 in hpmf.py 186
HPMF_clamp_iteration == 1

\* an item block whose alternation starts with the out-category entries
ItemUpdateMode_odd_first(c, f) ==
  IF ~(c.beta_given /\ c.categorywise) THEN "skip"
  ELSE IF c.item_fit_type = "alternating_updates"
  THEN IF f.i % 2 = 0 THEN "out_category" ELSE "in_category"
  ELSE IF c.item_fit_type = "converge_in_category_first"
  THEN IF f.update = "default" THEN "in_category" ELSE f.update
  ELSE IF c.item_fit_type = "converge_out_category_first"
  THEN IF f.update = "default" THEN "out_category" ELSE f.update
  ELSE "skip"

\* pmf.py 290-324, hpmf.py 204-232: the subset the item block updates, or
\* "skip" when no branch of it is taken
ItemUpdateMode(c, f) ==
  IF ~(c.beta_given /\ c.categorywise) THEN "skip"
  ELSE IF c.item_fit_type = "alternating_updates"
  THEN IF f.i % 2 = 0 THEN "in_category" ELSE "out_category"
  ELSE IF c.item_fit_type = "converge_in_category_first"
  THEN IF f.update = "default" THEN "in_category" ELSE f.update
  ELSE IF c.item_fit_type = "converge_out_category_first"
  THEN IF f.update = "default" THEN "out_category" ELSE f.update
  ELSE "skip"

\* pmf.py 267-268: the item block does nothing
PMF_items_pass(f, c) ==
  (c.beta_given /\ ~c.categorywise) \/ f.update = "users" \/ f.only_update = "users"

\* hpmf.py 183
HPMF_items_pass(f, c) == c.beta_given /\ ~c.categorywise

\* pmf.py 267-272, hpmf.py 183-186: this iteration's item block runs the
\* clamp
ClampDue(variant, f, c) ==
  /\ ~(IF variant = "pmf" THEN PMF_items_pass(f, c) ELSE HPMF_items_pass(f, c))
  /\ c.item_fit_type # "default"
  /\ f.zero_untrained_components
  /\ f.i = (IF variant = "pmf" THEN PMF_clamp_iteration ELSE HPMF_clamp_iteration)
  /\ f.update = "default"

\* an item block that leaves the items alone under the default policy
PMF_items_branch_default_skips(s, f, c) ==
  IF PMF_items_pass(f, c) THEN Ok(s)
  ELSE IF c.item_fit_type # "default"
  THEN LET m == ItemUpdateMode(c, f)
       IN IF m = "skip" THEN Ok(s)
          ELSE PMF_update_items(s, c.beta_given, c.beta, c.categorywise,
                                f.observed_user_preferences, m)
  ELSE Ok(s)

\* pmf.py 267-326 without the clamp: the item block of the loop body
PMF_items_branch(s, f, c) ==
  IF PMF_items_pass(f, c) THEN Ok(s)
  ELSE IF c.item_fit_type # "default"
  THEN LET m == ItemUpdateMode(c, f)
       IN IF m = "skip" THEN Ok(s)
          ELSE PMF_update_items(s, c.beta_given, c.beta, c.categorywise,
                                f.observed_user_preferences, m)
  ELSE PMF_update_items(s, FALSE, c.beta, FALSE, FALSE, "default")

\* hpmf.py 183-234 without the clamp
HPMF_items_branch(s, f, c) ==
  IF HPMF_items_pass(f, c) THEN Ok(s)
  ELSE IF c.item_fit_type # "default"
  THEN LET m == ItemUpdateMode(c, f)
       IN IF m = "skip" THEN Ok(s)
          ELSE HPMF_update_items(s, c.beta_given, c.beta, c.categorywise, m)
  ELSE HPMF_update_items(s, FALSE, c.beta, FALSE, "default")

\* the clamp of the first-run item block, a step of its own: the item update
\* of the same iteration follows it
ClampStep ==
  /\ pc = "items"
  /\ ClampDue(ctor.variant, fr, cfg)
  /\ LET res == Clamp(self, fr, cfg)
     IN /\ self' = res.self
        /\ fr' = res.fr
        /\ pc' = IF res.ok THEN "items_clamped" ELSE "crashed"
        /\ err' = res.err
  /\ UNCHANGED <<ctor, cfg, stack, out, fitl, h, ker, rf>>

ItemsStep ==
  /\ \/ pc = "items" /\ ~ClampDue(ctor.variant, fr, cfg)
     \/ pc = "items_clamped"
  /\ LET res == IF ctor.variant = "pmf" THEN PMF_items_branch(self, fr, cfg)
                ELSE HPMF_items_branch(self, fr, cfg)
     IN /\ self' = res.self
        /\ pc' = IF res.ok THEN "eval" ELSE "crashed"
        /\ err' = res.err
  /\ UNCHANGED <<ctor, cfg, fr, stack, out, fitl, h, ker, rf>>

\* pmf.py 332-339: keep the expectations of the best iteration so far
RecordBest(f, s, pred_ll) ==
  IF Gt(pred_ll, f.best_pll_dict.pred_ll)
  THEN [f EXCEPT !.best_pll_dict =
          [pred_ll |-> pred_ll, has |-> TRUE, best_Eb |-> s.Eb, best_Elogb |-> s.Elogb,
           best_Et |-> s.Et, best_Elogt |-> s.Elogt, ver_b |-> s.ver_b]]
  ELSE f

\* a converged run that starts a further run whatever its own update is
NextPhase_from_any_run(c, f) ==
  IF c.item_fit_type = "converge_in_category_first" THEN "out_category"
  ELSE IF c.item_fit_type = "converge_out_category_first" THEN "in_category"
  ELSE "none"

\* pmf.py 345-367, hpmf.py 245-265: the subset the second run updates, or
\* "none" when the converged run just breaks
NextPhase(c, f) ==
  IF f.update = "default" /\ c.item_fit_type = "converge_in_category_first"
  THEN "out_category"
  ELSE IF f.update = "default" /\ c.item_fit_type = "converge_out_category_first"
  THEN "in_category"
  ELSE "none"

\* a restore that leaves the clamped entries as they are
Restore_skipped(s, f, sub) == s

\* pmf.py 351-352 / 362-363: write the cached entries back
Restore(s, f, sub) ==
  [s EXCEPT !.gamma_b = [p \in Pos |-> IF p \in sub THEN f.gamma_b_cache[p] ELSE s.gamma_b[p]],
            !.rho_b = [p \in Pos |-> IF p \in sub THEN f.rho_b_cache[p] ELSE s.rho_b[p]]]

\* the state in which the second run starts, or the NameError of a restore
\* whose cache was never bound
StartPhase(s, f, c, phase) ==
  IF ~f.zero_untrained_components THEN Ok(s)
  ELSE IF f.cached # phase THEN Raise("UnboundLocalError", s)
  ELSE Ok(Restore(s, f, MaskSubset(c.beta, phase)))

\* what the call that just finished hands to its caller
Returned(f) ==
  IF ctor.variant = "pmf"
  THEN [returned |-> TRUE, pred_ll |-> f.pred_ll, best_pll_dict |-> f.best_pll_dict]
  ELSE [returned |-> TRUE, pred_ll |-> NegInf, best_pll_dict |-> EmptyBest]

\* pmf.py 327-377, hpmf.py 235-268: evaluate, test, and continue, recurse
\* or return.  A call that returns into a suspended first run makes that
\* run break and return too.
EvalStep ==
  /\ pc = "eval"
  /\ \E pred_ll \in pred_loglikeli(self, cfg.vad) :
       LET f1 == IF ctor.variant = "pmf" /\ pred_ll # NaN
                 THEN RecordBest([fr EXCEPT !.pred_ll = pred_ll], self, pred_ll)
                 ELSE [fr EXCEPT !.pred_ll = pred_ll]
           conv == Converged(pred_ll, fr.old_pll, fr.i, ctor.min_iter)
           phase == NextPhase(cfg, fr)
           st == StartPhase(self, fr, cfg, phase)
           how == IF pred_ll = NaN THEN "failed"
                  ELSE IF conv /\ phase # "none" THEN "phase"
                  ELSE IF conv THEN "converged"
                  ELSE IF fr.i + 1 = ctor.max_iter THEN "max_iter"
                  ELSE "continue"
           outer == IF stack = <<>> THEN f1 ELSE Head(stack)
       IN /\ h' = [h EXCEPT !.iters = h.iters + 1,
                            !.round_best =
                               IF Gt(pred_ll, h.round_best.pred_ll)
                               THEN [pred_ll |-> pred_ll, Eb |-> self.Eb, Et |-> self.Et,
                                     Elogb |-> self.Elogb, Elogt |-> self.Elogt]
                               ELSE h.round_best,
                            !.runs = IF how = "phase" /\ st.ok THEN h.runs + 1 ELSE h.runs,
                            !.last = [i |-> fr.i, pred_ll |-> pred_ll,
                                      old_pll |-> fr.old_pll, how |-> how,
                                      update |-> fr.update]]
          /\ CASE how = "failed" ->
                    /\ pc' = "failed" /\ err' = "nan in predictive ll"
                    /\ fr' = f1
                    /\ UNCHANGED <<self, stack, out>>
               [] how = "phase" ->
                    /\ self' = st.self
                    /\ pc' = IF st.ok THEN "users" ELSE "crashed"
                    /\ err' = st.err
                    /\ fr' = IF st.ok
                             THEN NewFrame(phase, fr.observed_user_preferences, FALSE,
                                           "None", "none")
                             ELSE f1
                    /\ stack' = IF st.ok THEN <<f1>> ELSE stack
                    /\ UNCHANGED out
               [] how \in {"converged", "max_iter"} ->
                    /\ pc' = IF cfg.user_fit_type = "default" THEN "done" ELSE "returned"
                    /\ fr' = outer
                    /\ stack' = <<>>
                    /\ out' = Returned(outer)
                    /\ UNCHANGED <<self, err>>
               [] OTHER ->
                    /\ pc' = "users"
                    /\ fr' = [f1 EXCEPT !.old_pll = pred_ll, !.i = fr.i + 1]
                    /\ UNCHANGED <<self, stack, err, out>>
  /\ UNCHANGED <<ctor, cfg, fitl, ker, rf>>

Next == Fit \/ UsersStep \/ ClampStep \/ ItemsStep \/ EvalStep

Spec == Init /\ [][Next]_vars

(* --------------- estimators built with any hyperparameters ------------ *)

\* the sign of a hyperparameter handed to the constructor
HyperSigns == {"negative", "zero", "positive"}

\* pmf.py 68-72, hpmf.py 65-71: _parse_args stores float(kwargs.get(...))
\* whatever its sign
parse_args(a, c) == [a |-> a, c |-> c]

\* __init__ with a and c of any sign, max_iter = 1
InitArgs ==
  /\ \E variant \in {"pmf", "hpmf"}, a \in HyperSigns, c \in HyperSigns :
       ctor = [variant |-> variant, max_iter |-> 1, min_iter |-> 0 - 1,
               a |-> parse_args(a, c).a, c |-> parse_args(a, c).c]
  /\ cfg = NoCfg
  /\ self = NewSelf
  /\ fr = NewFrame("default", FALSE, FALSE, "None", "none")
  /\ stack = <<>>
  /\ pc = "constructed"
  /\ err = ""
  /\ out = NoOut
  /\ fitl = NoFit
  /\ ker = NoKer
  /\ rf = NoRefs
  /\ h = NoHist

SpecArgs == InitArgs /\ [][Next]_vars

(* ------------------ fit with user_fit_type = converge_separately ------ *)

\* the number of rounds: self.max_iter_fixed = 10 in pmf.py 59
max_iter_fixed == 10

\* pmf.py 139: for switch_idx in xrange(self.max_iter_fixed), cut to the
\* first MaxRounds rounds
RoundsRun == IF MaxRounds < max_iter_fixed THEN MaxRounds ELSE max_iter_fixed

\* pmf.py 140-148: the side a round updates and whether it re-initialises
\* the users
RoundOnlyUpdate(switch_idx) == IF switch_idx % 2 = 0 THEN "items" ELSE "users"

RoundInitializeUsers(switch_idx) == IF switch_idx = 1 THEN "default" ELSE "none"

\* pmf.py 152-160: the call of _update that runs a round
RoundFrame(c, switch_idx) ==
  NewFrame("default", TRUE, c.zero_untrained_components,
           RoundOnlyUpdate(switch_idx), RoundInitializeUsers(switch_idx))

\* pmf.py 166-169: load the round's snapshot into the live expectations
LoadBest(s, bd) ==
  [s EXCEPT !.Eb = bd.best_Eb, !.Et = bd.best_Et,
            !.Elogb = bd.best_Elogb, !.Elogt = bd.best_Elogt, !.ver_b = bd.ver_b]

\* a fit that lets a later round of equal log-likelihood replace the kept one
KeepBest_latest_on_ties(fl, s, validation_ll) ==
  IF ~Gt(fl.best_validation_ll, validation_ll)
  THEN [fl EXCEPT !.best_validation_ll = validation_ll, !.bound = TRUE,
                  !.best_Eb = s.Eb, !.best_Et = s.Et, !.ver_b = s.ver_b]
  ELSE fl

\* pmf.py 170-177: keep the snapshot of the best round so far
KeepBest(fl, s, validation_ll) ==
  IF Gt(validation_ll, fl.best_validation_ll)
  THEN [fl EXCEPT !.best_validation_ll = validation_ll, !.bound = TRUE,
                  !.best_Eb = s.Eb, !.best_Et = s.Et, !.ver_b = s.ver_b]
  ELSE fl

\* pmf.py 130-160: _init_items, _init_users and the first round.  Without a
\* theta array observed_user_preferences is never bound and the call of
\* _update raises.
FitSep ==
  /\ pc = "constructed"
  /\ ctor.variant = "pmf"
  /\ ctor.max_iter <= MaxIterSep
  /\ \E b \in BetaArgs, theta_given \in BOOLEAN, categorywise \in BOOLEAN,
        ift \in ItemFitTypes, zero \in BOOLEAN, vad \in SepVadSets :
       /\ (categorywise /\ b.given) => b.m \in Masks
       /\ cfg' = [beta_given |-> b.given, beta |-> b.m, theta_given |-> theta_given,
                  categorywise |-> categorywise, item_fit_type |-> ift,
                  user_fit_type |-> "converge_separately",
                  zero_untrained_components |-> zero, vad |-> vad]
       /\ self' = PMF_init_users(PMF_init_items(self, b.given, b.m, categorywise),
                                 theta_given)
       /\ fr' = RoundFrame(cfg', 0)
       /\ pc' = IF theta_given THEN "users" ELSE "crashed"
       /\ err' = IF theta_given THEN "" ELSE "UnboundLocalError: observed_user_preferences"
  /\ h' = [h EXCEPT !.runs = 1]
  /\ UNCHANGED <<ctor, stack, out, fitl, ker, rf>>

\* pmf.py 161-182: the end of a round, and the start of the next round or
\* the end of fit.  A round without an evaluation above -inf returns a
\* dict without snapshot, and reading it raises KeyError.
RoundEndStep(rounds) ==
  /\ pc = "returned"
  /\ LET bd == out.best_pll_dict
         s1 == LoadBest(self, bd)
         fl == [KeepBest(fitl, s1, bd.pred_ll) EXCEPT !.switch_idx = fitl.switch_idx + 1]
         last == fl.switch_idx = rounds
     IN IF ~bd.has
        THEN /\ pc' = "crashed" /\ err' = "KeyError: best_Eb"
             /\ UNCHANGED <<self, fr, fitl, h>>
        ELSE /\ fitl' = fl
             /\ self' = IF last THEN [s1 EXCEPT !.Eb = fl.best_Eb, !.Et = fl.best_Et,
                                                !.ver_b = fl.ver_b]
                         ELSE s1
             /\ pc' = IF last THEN "done" ELSE "users"
             /\ fr' = IF last THEN fr ELSE RoundFrame(cfg, fl.switch_idx)
             /\ h' = [h EXCEPT !.round_best = NoRoundBest,
                               !.runs = IF last THEN h.runs ELSE h.runs + 1]
             /\ err' = err
  /\ UNCHANGED <<ctor, cfg, stack, out, ker, rf>>

RoundEnd == RoundEndStep(RoundsRun)

NextSep == FitSep \/ UsersStep \/ ClampStep \/ ItemsStep \/ EvalStep \/ RoundEnd

SpecSep == Init /\ [][NextSep]_vars

(* ------------- the rounds of fit, a round as a single step ------------ *)

\* the expectations some iteration n of a round computed
IterEb(n) ==
  compute_expectations_mean([p \in Pos |-> IV("gamma_b", n, PosIdx(p), 0, 0, "", "", "")],
                            [p \in Pos |-> IV("rho_b", n, p[2], 0, 0, "", "", "")])

IterElogb(n) ==
  compute_expectations_log([p \in Pos |-> IV("gamma_b", n, PosIdx(p), 0, 0, "", "", "")],
                           [p \in Pos |-> IV("rho_b", n, p[2], 0, 0, "", "", "")])

IterEt(n) ==
  compute_expectations_mean_t(IV("gamma_t", n, 0, 0, 0, "", "", ""),
                              IV("rho_t", n, 0, 0, 0, "", "", ""))

IterElogt(n) ==
  compute_expectations_log_t(IV("gamma_t", n, 0, 0, 0, "", "", ""),
                             IV("rho_t", n, 0, 0, 0, "", "", ""))

\* pmf.py 130-160 for a category mask and a theta array
FitRounds ==
  /\ pc = "constructed"
  /\ ctor.variant = "pmf"
  /\ LET m == MaskOf(0) IN
       /\ cfg' = [NoCfg EXCEPT !.beta_given = TRUE, !.beta = m, !.theta_given = TRUE,
                               !.categorywise = TRUE,
                               !.item_fit_type = "alternating_updates",
                               !.user_fit_type = "converge_separately",
                               !.vad = {<<0, 1>>}]
       /\ self' = PMF_init_users(PMF_init_items(self, TRUE, m, TRUE), TRUE)
       /\ fr' = RoundFrame(cfg', 0)
  /\ pc' = "users"
  /\ h' = [h EXCEPT !.runs = 1]
  /\ UNCHANGED <<ctor, stack, err, out, fitl, ker, rf>>

\* pmf.py 152-160, 377: a whole call of _update, seen from fit: it ran two
\* iterations, leaves the expectations of the second in the estimator and
\* returns the last log-likelihood and the dict of the better iteration (the
\* first one unless the second was strictly better), or a dict without
\* snapshot when no log-likelihood was above -inf
UpdateReturns ==
  /\ pc = "users"
  /\ \E best \in {self.tick + 1, self.tick + 2},
        pred_ll \in {Fin(v) : v \in (0 - PllMax) .. 0},
        best_ll \in {Fin(v) : v \in (0 - PllMax) .. 0} \cup {NegInf} :
       /\ best_ll # NegInf => ~Gt(pred_ll, best_ll)
       /\ best = self.tick + 2 => pred_ll = best_ll
       /\ self' = [self EXCEPT !.tick = self.tick + 2,
                               !.Eb = IterEb(self.tick + 2), !.Elogb = IterElogb(self.tick + 2),
                               !.Et = IterEt(self.tick + 2), !.Elogt = IterElogt(self.tick + 2),
                               !.ver_b = self.tick + 2]
       /\ out' = [returned |-> TRUE, pred_ll |-> IF best_ll = NegInf THEN NegInf ELSE pred_ll,
                  best_pll_dict |->
                    IF best_ll = NegInf THEN EmptyBest
                    ELSE [pred_ll |-> best_ll, has |-> TRUE,
                          best_Eb |-> IterEb(best), best_Elogb |-> IterElogb(best),
                          best_Et |-> IterEt(best), best_Elogt |-> IterElogt(best),
                          ver_b |-> best]]
  /\ pc' = "returned"
  /\ UNCHANGED <<ctor, cfg, fr, stack, err, fitl, h, ker, rf>>

\* pmf.py 139, 161-182 with all max_iter_fixed rounds
RoundEndFull == RoundEndStep(max_iter_fixed)

NextRounds == FitRounds \/ UpdateReturns \/ RoundEndFull

SpecRounds == Init /\ [][NextRounds]_vars

(* ------------------ _update_items called on its own -------------------- *)

\* _init_items and _init_users for variational items, with a category mask
\* at hand for the calls that follow
DirectInit ==
  /\ pc = "constructed"
  /\ \E m \in Masks :
       /\ cfg' = [NoCfg EXCEPT !.beta_given = TRUE, !.beta = m, !.categorywise = TRUE]
       /\ self' = IF ctor.variant = "pmf"
                  THEN PMF_init_users(PMF_init_items(self, TRUE, m, TRUE), FALSE)
                  ELSE HPMF_init_users(HPMF_init_items(self, FALSE, m))
  /\ pc' = "direct"
  /\ UNCHANGED <<ctor, fr, stack, err, out, fitl, h, ker, rf>>

\* _update_items(X, rows, cols, beta=mask, categorywise=True, update=...)
DirectMaskedUpdate ==
  /\ pc = "direct"
  /\ self.nItems < MaxCalls
  /\ \E update \in {"in_category", "out_category"} :
       LET res == IF ctor.variant = "pmf"
                  THEN PMF_update_items(self, TRUE, cfg.beta, TRUE, FALSE, update)
                  ELSE HPMF_update_items(self, TRUE, cfg.beta, TRUE, update)
       IN /\ self' = res.self
          /\ pc' = IF res.ok THEN "direct" ELSE "crashed"
          /\ err' = res.err
          /\ fr' = [fr EXCEPT !.update = update]
  /\ UNCHANGED <<ctor, cfg, stack, out, fitl, h, ker, rf>>

NextItems == DirectInit \/ DirectMaskedUpdate

SpecItems == Init /\ [][NextItems]_vars

(* ---------------------------- the kernel _inner ------------------------ *)

\* A matrix is given by its shape; the number in a cell is named by the
\* cell's coordinates r, c.  The C loop reads the matrices through flat
\* pointers: a C-ordered matrix keeps cell r, c at position r*ncols + c, and
\* a position past the last cell is outside the matrix.
FlatRead(m, idx) ==
  IF idx < m.nrows * m.ncols
  THEN [inside |-> TRUE, r |-> idx \div m.ncols, c |-> idx % m.ncols]
  ELSE [inside |-> FALSE, r |-> 0, c |-> idx]

\* the same loop with the row stride of beta taken from the second dimension
\* of theta
inner_stride_n_users(beta, theta, rows, cols) ==
  LET n_ratings == Len(rows)
      n_components == theta.nrows
      n_users == theta.ncols
  IN [i \in 1 .. n_ratings |->
        {<<FlatRead(beta, rows[i] * n_users + j),
           FlatRead(theta, j * n_users + cols[i])>> : j \in 0 .. (n_components - 1)}]

\* _inner(beta, theta, rows, cols): data[i] is the sum over j of
\* beta[rows[i]*n_components + j] * theta[j*n_users + cols[i]], with
\* n_components, n_users = theta.shape; a sum is the set of its products
inner(beta, theta, rows, cols) ==
  LET n_ratings == Len(rows)
      n_components == theta.nrows
      n_users == theta.ncols
  IN [i \in 1 .. n_ratings |->
        {<<FlatRead(beta, rows[i] * n_components + j),
           FlatRead(theta, j * n_users + cols[i])>> : j \in 0 .. (n_components - 1)}]

\* a read of the call went past the end of a matrix
ReadsOutside(data) ==
  \E i \in 1 .. Len(data) : \E pr \in data[i] :
     ~pr[1].inside \/ ~pr[2].inside

Dims == 1 .. MaxDim

\* the index lists of length n into an N x M data matrix
IndexLists(n, N, M) == [1 .. n -> (0 .. (N - 1)) \X (0 .. (M - 1))]

InitInner ==
  /\ ctor = [variant |-> "hpmf", max_iter |-> 1, min_iter |-> -1,
             a |-> "positive", c |-> "positive"]
  /\ cfg = NoCfg
  /\ self = NewSelf
  /\ fr = NewFrame("default", FALSE, FALSE, "None", "none")
  /\ stack = <<>>
  /\ pc = "constructed"
  /\ err = ""
  /\ out = NoOut
  /\ fitl = NoFit
  /\ ker = NoKer
  /\ rf = NoRefs
  /\ h = NoHist

\* fit(X, rows, cols, vad, beta=beta) with beta an array: X is N x M, the
\* user matrices are n_components x M, and _init_items keeps beta as
\* self.Eb whatever its second dimension is
FitFixedItems ==
  /\ pc = "constructed"
  /\ \E N \in Dims, M \in Dims, K \in Dims, Kb \in Dims, n \in 0 .. MaxPairs :
       \E pairs \in IndexLists(n, N, M) :
          ker' = [NoKer EXCEPT !.beta = [nrows |-> N, ncols |-> Kb],
                               !.theta = [nrows |-> K, ncols |-> M],
                               !.rows = [i \in 1 .. n |-> pairs[i][1]],
                               !.cols = [i \in 1 .. n |-> pairs[i][2]]]
  /\ pc' = "kernel"
  /\ UNCHANGED <<ctor, cfg, self, fr, stack, err, out, fitl, h, rf>>

\* the first _update_users: _xexplog calls _inner(self.Eb, exp(Elogt), rows,
\* cols).  A read outside a matrix is undefined in C: the call returns a
\* number made of whatever was there, or the process is killed.
InnerCall ==
  /\ pc = "kernel"
  /\ LET data == inner(ker.beta, ker.theta, ker.rows, ker.cols)
     IN \E outcome \in {"returned", "killed"} :
          /\ outcome = "killed" => ReadsOutside(data)
          /\ ker' = [ker EXCEPT !.data = IF outcome = "returned" THEN data ELSE <<>>,
                                !.outcome = outcome]
          /\ pc' = IF outcome = "returned" THEN "kernel_returned" ELSE "crashed"
          /\ err' = IF outcome = "returned" THEN "" ELSE "SegmentationFault"
  /\ UNCHANGED <<ctor, cfg, self, fr, stack, out, fitl, h, rf>>

NextInner == FitFixedItems \/ InnerCall

SpecInner == InitInner /\ [][NextInner]_vars

(* ------------------- arrays and the names bound to them ---------------- *)

\* An array holds a number for its in-category entries and one for its
\* out-category entries; a number is named by the count of the update that
\* computed it (0: drawn at initialisation or supplied, -1: small_num).
Cells(v) == [in |-> v, out |-> v]

\* the same assignment writing its result into the array the name already
\* holds
Rebind_in_place(r, name, content) ==
  IF r[name] = 0
  THEN [r EXCEPT !.mem = Append(r.mem, content), ![name] = Len(r.mem) + 1]
  ELSE [r EXCEPT !.mem[r[name]] = content]

\* self.<name> = <expression>: the expression builds a new array and the
\* name is bound to it (pmf.py 491: alpha / beta and psi(alpha) - log(beta)
\* are new arrays; pmf.py 444-446, 397-405)
Rebind(r, name, content) ==
  [r EXCEPT !.mem = Append(r.mem, content), ![name] = Len(r.mem) + 1]

\* self.<name>[subset] = value: written into the array itself (pmf.py
\* 282-283, 288-289, 351-352, 362-363, 435-442)
WriteCells(r, name, cell, v) == [r EXCEPT !.mem[r[name]][cell] = v]

\* the entries a masked call or a clamp names
CellOf(update) == IF update = "in_category" THEN "in" ELSE "out"

\* self.Eb, self.Elogb = _compute_expectations(self.gamma_b, self.rho_b)
RefExpectationsB(r) == Rebind(Rebind(r, "Eb", Cells(r.ops)), "Elogb", Cells(r.ops))

\* self.Et, self.Elogt = _compute_expectations(self.gamma_t, self.rho_t)
RefExpectationsT(r) == Rebind(Rebind(r, "Et", Cells(r.ops)), "Elogt", Cells(r.ops))

\* pmf.py 93-112 with variational items
RefInitItems(r) ==
  RefExpectationsB(Rebind(Rebind(r, "gamma_b", Cells(r.ops)), "rho_b", Cells(r.ops)))

\* pmf.py 74-91: a supplied theta is bound as self.Et
RefInitUsers(r, theta_given) ==
  IF theta_given
  THEN [Rebind(r, "Et", Cells(r.ops)) EXCEPT !.Elogt = 0, !.gamma_t = 0, !.rho_t = 0]
  ELSE RefExpectationsT(Rebind(Rebind(r, "gamma_t", Cells(r.ops)), "rho_t", Cells(r.ops)))

RefOk(r) == [ok |-> TRUE, r |-> r]

RefRaise(r) == [ok |-> FALSE, r |-> r]

\* pmf.py 379-405 with beta=False and no observed preferences: reads
\* exp(Elogb) and exp(Elogt)
RefUpdateUsers(r0) ==
  LET r == [r0 EXCEPT !.ops = r0.ops + 1]
  IN IF r.Elogb = 0 \/ r.Elogt = 0 THEN RefRaise(r)
     ELSE RefOk(RefExpectationsT(Rebind(Rebind(r, "gamma_t", Cells(r.ops)),
                                        "rho_t", Cells(r.ops))))

\* pmf.py 235-265
RefUsersBranch(r) ==
  LET f == r.f
  IN IF f.only_update = "items" \/ (f.observed_user_preferences /\ f.update # "default")
     THEN RefOk(r)
     ELSE IF f.only_update = "users" /\ f.initialize_users = "default" /\ f.i = 0
     THEN RefUpdateUsers(RefInitUsers(r, FALSE))
     ELSE RefUpdateUsers(r)

\* pmf.py 407-447
RefUpdateItems(r0, masked, update, observed_user_preferences) ==
  LET r == [r0 EXCEPT !.ops = r0.ops + 1]
  IN IF r.Elogb = 0 \/ (r.Elogt = 0 /\ ~(masked /\ observed_user_preferences))
     THEN RefRaise(r)
     ELSE IF masked
     THEN RefOk(RefExpectationsB(
                  WriteCells(WriteCells(r, "gamma_b", CellOf(update), r.ops),
                             "rho_b", CellOf(update), r.ops)))
     ELSE RefOk(RefExpectationsB(Rebind(Rebind(r, "gamma_b", Cells(r.ops)),
                                        "rho_b", Cells(r.ops))))

\* pmf.py 272-289: the boolean index copies the entries, then they are
\* overwritten
RefClamp(r) ==
  LET cell == IF r.c.item_fit_type = "converge_in_category_first" THEN "out" ELSE "in"
  IN IF r.c.item_fit_type \in {"converge_in_category_first", "converge_out_category_first"}
     THEN [WriteCells(WriteCells(r, "gamma_b", cell, 0 - 1), "rho_b", cell, 0 - 1)
             EXCEPT !.cache = [gamma_b |-> r.mem[r.gamma_b][cell],
                               rho_b |-> r.mem[r.rho_b][cell]],
                    !.f.cached = IF cell = "in" THEN "in_category" ELSE "out_category"]
     ELSE r

\* pmf.py 267-326
RefItemsBranch(r0) ==
  LET r == IF ClampDue("pmf", r0.f, r0.c) THEN RefClamp(r0) ELSE r0
      m == ItemUpdateMode(r.c, r.f)
  IN IF PMF_items_pass(r.f, r.c) THEN RefOk(r)
     ELSE IF r.c.item_fit_type # "default"
     THEN IF m = "skip" THEN RefOk(r)
          ELSE RefUpdateItems(r, TRUE, m, r.f.observed_user_preferences)
     ELSE RefUpdateItems(r, FALSE, "default", FALSE)

\* pmf.py 332-339: the dict is given the arrays themselves
RefRecordBest(r) ==
  [has |-> TRUE, op |-> r.ops,
   ref |-> [Eb |-> r.Eb, Elogb |-> r.Elogb, Et |-> r.Et, Elogt |-> r.Elogt],
   at |-> [n \in {"Eb", "Elogb", "Et", "Elogt"} |->
             IF r[n] = 0 THEN <<>> ELSE r.mem[r[n]]]]

\* pmf.py 348-352, 359-363
RefRestore(r, phase) ==
  WriteCells(WriteCells(r, "gamma_b", CellOf(phase), r.cache.gamma_b),
             "rho_b", CellOf(phase), r.cache.rho_b)

\* pmf.py 166-169
RefLoadBest(r) ==
  [r EXCEPT !.Eb = r.dict.ref.Eb, !.Et = r.dict.ref.Et,
            !.Elogb = r.dict.ref.Elogb, !.Elogt = r.dict.ref.Elogt]

\* pmf.py 171-173: best_Eb = self.Eb; best_Et = self.Et
RefKeepBest(r) ==
  [has |-> TRUE, op |-> r.dict.op,
   ref |-> [Eb |-> r.Eb, Elogb |-> 0, Et |-> r.Et, Elogt |-> 0],
   at |-> [Eb |-> r.mem[r.Eb], Elogb |-> <<>>, Et |-> r.mem[r.Et], Elogt |-> <<>>]]

InitRefs ==
  /\ ctor \in [variant : {"pmf"}, max_iter : 1 .. MaxIterSep, min_iter : {0 - 1},
               a : {"positive"}, c : {"positive"}]
  /\ cfg = NoCfg
  /\ self = NewSelf
  /\ fr = NewFrame("default", FALSE, FALSE, "None", "none")
  /\ stack = <<>>
  /\ pc = "constructed"
  /\ err = ""
  /\ out = NoOut
  /\ fitl = NoFit
  /\ ker = NoKer
  /\ rf = NoRefs
  /\ h = NoHist

\* pmf.py 130-160, 184-188: fit with variational items, under the default
\* user policy or, with a theta array and a category mask, under
\* converge_separately
RefFit ==
  /\ rf.pc = "constructed"
  /\ \E sep \in BOOLEAN, ift \in ItemFitTypes, zero \in BOOLEAN :
       /\ sep => ift # "default"
       /\ LET c == [NoCfg EXCEPT !.beta_given = ift # "default", !.beta = MaskOf(0),
                                 !.categorywise = ift # "default",
                                 !.theta_given = sep, !.item_fit_type = ift,
                                 !.user_fit_type =
                                    IF sep THEN "converge_separately" ELSE "default",
                                 !.zero_untrained_components = zero]
          IN rf' = [RefInitUsers(RefInitItems(rf), sep)
                      EXCEPT !.pc = "users", !.sep = sep, !.c = c,
                             !.f = IF sep THEN RoundFrame(c, 0)
                                   ELSE NewFrame("default", FALSE, zero, "None", "none")]
  /\ UNCHANGED <<ctor, cfg, self, fr, stack, pc, err, out, fitl, ker, h>>

RefUsersStep ==
  /\ rf.pc = "users"
  /\ LET res == RefUsersBranch(rf)
     IN rf' = [res.r EXCEPT !.pc = IF res.ok THEN "items" ELSE "crashed"]
  /\ UNCHANGED <<ctor, cfg, self, fr, stack, pc, err, out, fitl, ker, h>>

RefItemsStep ==
  /\ rf.pc = "items"
  /\ LET res == RefItemsBranch(rf)
     IN rf' = [res.r EXCEPT !.pc = IF res.ok THEN "eval" ELSE "crashed"]
  /\ UNCHANGED <<ctor, cfg, self, fr, stack, pc, err, out, fitl, ker, h>>

\* pmf.py 327-377: the evaluation may be a new best; iteration 0 never
\* passes the stop test; a restore whose cache was never bound raises
RefEvalStep ==
  /\ rf.pc = "eval"
  /\ \E better \in BOOLEAN, conv \in BOOLEAN :
       /\ conv => rf.f.i > 0
       /\ LET r == IF better THEN [rf EXCEPT !.dict = RefRecordBest(rf)] ELSE rf
              phase == NextPhase(r.c, r.f)
          IN IF conv /\ phase # "none" /\ r.f.zero_untrained_components
                /\ r.f.cached # phase
             THEN rf' = [r EXCEPT !.pc = "crashed"]
             ELSE IF conv /\ phase # "none"
             THEN rf' = [(IF r.f.zero_untrained_components THEN RefRestore(r, phase) ELSE r)
                           EXCEPT !.pc = "users",
                                  !.suspended = <<[f |-> r.f, dict |-> r.dict]>>,
                                  !.dict = NoSnap,
                                  !.f = NewFrame(phase, r.f.observed_user_preferences,
                                                 FALSE, "None", "none")]
             ELSE IF conv \/ r.f.i + 1 = ctor.max_iter
             THEN rf' = [r EXCEPT !.pc = IF r.sep THEN "returned" ELSE "done",
                                  !.suspended = <<>>,
                                  !.f = IF r.suspended = <<>> THEN r.f
                                        ELSE r.suspended[1].f,
                                  !.dict = IF r.suspended = <<>> THEN r.dict
                                           ELSE r.suspended[1].dict]
             ELSE rf' = [r EXCEPT !.pc = "users", !.f.i = r.f.i + 1]
  /\ UNCHANGED <<ctor, cfg, self, fr, stack, pc, err, out, fitl, ker, h>>

\* pmf.py 161-182: load the round's snapshot, perhaps keep it, and start the
\* next round or end the fit with the kept one
RefRoundEnd ==
  /\ rf.pc = "returned"
  /\ IF ~rf.dict.has
     THEN rf' = [rf EXCEPT !.pc = "crashed"]
     ELSE \E keep \in BOOLEAN :
            /\ ~rf.kept.has => keep
            /\ LET r1 == RefLoadBest(rf)
                   r2 == IF keep THEN [r1 EXCEPT !.kept = RefKeepBest(r1)] ELSE r1
                   last == rf.switch_idx + 1 = RoundsRun
               IN rf' = IF last
                        THEN [r2 EXCEPT !.pc = "done", !.switch_idx = rf.switch_idx + 1,
                                        !.Eb = r2.kept.ref.Eb, !.Et = r2.kept.ref.Et]
                        ELSE [r2 EXCEPT !.pc = "users", !.switch_idx = rf.switch_idx + 1,
                                        !.dict = NoSnap,
                                        !.f = RoundFrame(rf.c, rf.switch_idx + 1)]
  /\ UNCHANGED <<ctor, cfg, self, fr, stack, pc, err, out, fitl, ker, h>>

NextRefs == RefFit \/ RefUsersStep \/ RefItemsStep \/ RefEvalStep \/ RefRoundEnd

SpecRefs == InitRefs /\ [][NextRefs]_vars

(* ----------------------------- properties ------------------------------ *)

\* fit has started and is somewhere in, or past, the loop of _update
Started == pc # "constructed"

\* fit is about to run a block of the loop body
Running == pc \in {"users", "items", "items_clamped", "eval"}

\* C1: a fit with a fixed item matrix and no category policy completes
\* normally, never executes an item update, never reads the absent item
\* log-expectation, and returns the supplied matrix as item expectation, in
\* the flat and in the hierarchical variant.
C1_FixedBetaFitCompletes ==
  (Started /\ cfg.beta_given /\ ~cfg.categorywise /\ cfg.item_fit_type = "default"
     /\ ~cfg.theta_given /\ cfg.vad # {})
    => /\ pc # "crashed"
       /\ self.nItems = 0
       /\ pc = "done" => self.Eb = ObsMat(cfg.beta)

\* C2: an iteration whose held-out log-likelihood is not finite ends the
\* fit in FAILED in that same iteration.
C2_NonFiniteFails ==
  (h.iters > 0 /\ ~IsFinite(h.last.pred_ll)) => pc = "failed"

\* C4: a fit with the default user policy performs at most max_iter
\* iterations in total, under every item-fit policy.
C4_AtMostMaxIterIterations == h.iters <= ctor.max_iter

\* C5: a fit with a fixed user matrix and default policies completes, never
\* executes a user update, never reads the absent user log-expectation, and
\* returns the supplied matrix as user expectation, in both variants.
C5_FixedThetaNeverUpdated ==
  (Started /\ cfg.theta_given /\ ~cfg.beta_given /\ ~cfg.categorywise
     /\ cfg.item_fit_type = "default" /\ cfg.vad # {})
    => /\ pc # "crashed"
       /\ self.nUsers = 0
       /\ pc = "done" => self.Et = ObsTheta

\* the item expectations are those of the current item shape and rate
ItemExpectationsFresh ==
  /\ self.Eb = compute_expectations_mean(self.gamma_b, self.rho_b)
  /\ self.Elogb = compute_expectations_log(self.gamma_b, self.rho_b)

\* the user expectations are those of the current user shape and rate
UserExpectationsFresh ==
  /\ self.Et = compute_expectations_mean_t(self.gamma_t, self.rho_t)
  /\ self.Elogt = compute_expectations_log_t(self.gamma_t, self.rho_t)

\* C6: wherever an update or the evaluation is about to read a variational
\* side's expectations, they equal expectations(shape, rate) of that side's
\* current shape and rate; in particular right after the clamp and right
\* after the restore.
C6_ExpectationsFreshAtReads ==
  Running => /\ self.gamma_b # NoneMat => ItemExpectationsFresh
             /\ self.gamma_t # NoneV => UserExpectationsFresh

\* the entries a category-first policy trains second
NonPriority ==
  IF cfg.item_fit_type = "converge_in_category_first"
  THEN {p \in Pos : cfg.beta[p] = 0}
  ELSE {p \in Pos : cfg.beta[p] # 0}

CategoryFirst ==
  /\ cfg.item_fit_type \in {"converge_in_category_first", "converge_out_category_first"}
  /\ cfg.beta_given /\ cfg.categorywise

\* C8: under a category-first policy with zero_untrained_components, once
\* the first run has started an item update, and until that run ends, every
\* non-priority entry of item shape and rate holds the clamp constant, in
\* both variants.
C8_ClampedThroughPhaseOne ==
  (Started /\ CategoryFirst /\ cfg.zero_untrained_components
     /\ stack = <<>> /\ pc # "done" /\ self.nItems > 0)
    => \A p \in NonPriority : self.gamma_b[p] = small_num /\ self.rho_b[p] = small_num

\* the last evaluated iteration passed the stop test as the specification
\* words it: past min_iter, relative improvement below tol
Qualifies(last) ==
  last.i > ctor.min_iter /\ ImprovementBelowTol(last.pred_ll, last.old_pll)

\* C3: an iteration ends its run by convergence exactly when its index is
\* above min_iter and its relative improvement is below tol: the run neither
\* stops by convergence earlier nor continues past such an iteration.
C3_StopsExactlyWhenQualified ==
  (h.iters > 0 /\ h.last.how # "failed")
    => (h.last.how \in {"converged", "phase"} <=> Qualifies(h.last))

\* a run has stopped by convergence at the first index above a positive
\* min_iter
C3_Witness ==
  /\ h.last.how = "converged" /\ ctor.min_iter > 0
  /\ h.last.i = ctor.min_iter + 1 /\ pc = "done"

InCategory == {p \in Pos : cfg.beta[p] # 0}

OutCategory == {p \in Pos : cfg.beta[p] = 0}

\* the entries whose shape or rate a step changed
Written == {p \in Pos : self'.gamma_b[p] # self.gamma_b[p] \/ self'.rho_b[p] # self.rho_b[p]}

\* the entries whose shape and rate a step computed anew
Recomputed ==
  {p \in Pos : /\ self'.gamma_b[p].t = "gamma_b" /\ self'.gamma_b[p].n = self'.tick
               /\ self'.rho_b[p].t = "rho_b" /\ self'.rho_b[p].n = self'.tick}

\* C7: a masked item update writes the newly computed shape and rate into
\* exactly the selected subset, the in-category entries or the out-category
\* entries, leaves every other entry of shape and rate as it was, and the
\* two subsets partition the item-by-component entries.
C7_MaskedUpdateFrame ==
  [][(pc = "direct" /\ pc' = "direct")
       => LET sel == IF fr'.update = "in_category" THEN InCategory ELSE OutCategory
          IN /\ Written = sel
             /\ Recomputed = sel
             /\ InCategory \cup OutCategory = Pos
             /\ InCategory \cap OutCategory = {}]_vars

\* after an in-category and an out-category call every entry has been
\* written, the two halves by different calls
C7_Witness ==
  /\ pc = "direct" /\ ctor.variant = "hpmf" /\ self.nItems = 2
  /\ \A p \in InCategory : self.gamma_b[p].n = 1 /\ self.rho_b[p].n = 1
  /\ \A p \in OutCategory : self.gamma_b[p].n = 2 /\ self.rho_b[p].n = 2

\* the name of the second run of a category-first policy
SecondUpdate ==
  IF cfg.item_fit_type = "converge_in_category_first" THEN "out_category"
  ELSE "in_category"

\* C9: when the first run of a category-first policy converges, the second
\* run starts at iteration 0 with previous log-likelihood -inf; with
\* zero_untrained_components the non-priority entries of shape and rate are
\* then exactly the values set aside before the clamp; and the second run
\* never changes a priority entry of shape or rate.
C9_RestoreThenSecondRun ==
  [][CategoryFirst
       => /\ (pc = "items" /\ pc' = "items_clamped")
               => \A p \in NonPriority : /\ fr'.gamma_b_cache[p] = self.gamma_b[p]
                                         /\ fr'.rho_b_cache[p] = self.rho_b[p]
          /\ (stack = <<>> /\ stack' = <<>> /\ fr.cached # "none" /\ pc' # "done")
               => /\ fr'.gamma_b_cache = fr.gamma_b_cache
                  /\ fr'.rho_b_cache = fr.rho_b_cache
          /\ (stack = <<>> /\ stack' # <<>>)
               => /\ fr'.i = 0 /\ fr'.old_pll = NegInf /\ fr'.update = SecondUpdate
                  /\ Qualifies(h'.last)
                  /\ cfg.zero_untrained_components
                       => \A p \in NonPriority : /\ self'.gamma_b[p] = fr.gamma_b_cache[p]
                                                 /\ self'.rho_b[p] = fr.rho_b_cache[p]
          /\ (stack # <<>> \/ stack' # <<>>)
               => \A p \in Pos \ NonPriority : /\ self'.gamma_b[p] = self.gamma_b[p]
                                               /\ self'.rho_b[p] = self.rho_b[p]]_vars

\* the second run after a clamp has updated the restored entries
C9_Witness ==
  /\ CategoryFirst /\ cfg.zero_untrained_components
  /\ stack # <<>> /\ pc = "eval" /\ fr.i = 1
  /\ \A p \in NonPriority : self.gamma_b[p].t = "gamma_b" /\ self.gamma_b[p].n = self.tick
  /\ \A p \in Pos \ NonPriority : self.gamma_b[p].t = "gamma_b" /\ self.gamma_b[p].n < self.tick

Alternating ==
  cfg.item_fit_type = "alternating_updates" /\ cfg.beta_given /\ cfg.categorywise

\* C10: in a run under alternating_updates the item update of iteration i
\* writes the in-category entries when i is even and the out-category
\* entries when i is odd; no entry is clamped or set aside, also with
\* zero_untrained_components; no second run is started, and the run stops by
\* the same convergence test.
C10_AlternatingUpdates ==
  [][Alternating'
       => /\ (pc \in {"items", "items_clamped"} /\ pc' = "eval")
               => Written = (IF fr.i % 2 = 0 THEN InCategory ELSE OutCategory)
          /\ fr'.cached = "none" /\ stack' = <<>>
          /\ \A p \in Pos : self'.gamma_b[p] # small_num /\ self'.rho_b[p] # small_num
          /\ h'.iters > 0 /\ h'.last.how # "failed"
               => (h'.last.how = "converged" <=> Qualifies(h'.last))]_vars

\* the third iteration of an alternating run with zero_untrained_components
\* has updated the in-category entries again
C10_Witness ==
  /\ Alternating /\ cfg.zero_untrained_components
  /\ pc = "eval" /\ fr.i = 2
  /\ \A p \in InCategory : self.gamma_b[p].n = self.tick
  /\ \A p \in OutCategory : self.gamma_b[p].t = "gamma_b" /\ self.gamma_b[p].n < self.tick

\* fit runs under converge_separately
Separately == cfg.user_fit_type = "converge_separately"

\* a step left the user shape, rate and expectations as they were
UsersUntouched ==
  /\ self'.gamma_t = self.gamma_t /\ self'.rho_t = self.rho_t
  /\ self'.Et = self.Et /\ self'.Elogt = self.Elogt

\* a step left the item shape, rate and expectations as they were
ItemsUntouched ==
  /\ self'.gamma_b = self.gamma_b /\ self'.rho_b = self.rho_b
  /\ self'.Eb = self.Eb /\ self'.Elogb = self.Elogb

\* C11: under converge_separately there are at most 10 rounds; no step of an
\* even round runs a user update or changes the user state; no step of an
\* odd round runs an item update or changes the item shape, rate or
\* expectations, under every item-fit policy; and the users are initialised
\* anew exactly once, at iteration 0 of round 1.
C11_RoundsAlternateFrozenSide ==
  [][(Separately /\ Running)
       => /\ fitl.switch_idx < max_iter_fixed
          /\ fitl.switch_idx % 2 = 0 => (UsersUntouched /\ self'.nUsers = self.nUsers)
          /\ fitl.switch_idx % 2 = 1 => (ItemsUntouched /\ self'.nItems = self.nItems)
          /\ self'.nInits # self.nInits
               => (self.nInits = 0 /\ fitl.switch_idx = 1 /\ fr.i = 0 /\ stack = <<>>)]_vars

\* C12: the snapshot a round of converge_separately returns is that of the
\* iteration with the greatest held-out log-likelihood among all iterations
\* the round evaluated, those of a second run included, and the live
\* expectations and log-expectations are that snapshot when the next round
\* starts.
C12_RoundSnapshotIsRoundBest ==
  /\ (Separately /\ pc = "returned")
       => /\ out.best_pll_dict.pred_ll = h.round_best.pred_ll
          /\ out.best_pll_dict.best_Eb = h.round_best.Eb
          /\ out.best_pll_dict.best_Et = h.round_best.Et
  /\ (Separately /\ pc = "users" /\ fitl.switch_idx > 0 /\ fr.i = 0 /\ stack = <<>>)
       => /\ self.Eb = out.best_pll_dict.best_Eb /\ self.Elogb = out.best_pll_dict.best_Elogb
          /\ self.Et = out.best_pll_dict.best_Et /\ self.Elogt = out.best_pll_dict.best_Elogt

\* C13: fit keeps, round after round, the snapshot of the first round whose
\* log-likelihood is the greatest of all round snapshots so far (a later
\* round replaces it only with a strictly greater value), the reported best
\* likelihood is that greatest value, and when fit returns after the last
\* round the item and user expectations are those of the kept snapshot.
C13_FinalStateIsBestRound ==
  [][(Separately /\ pc = "returned" /\ pc' # "crashed")
       => LET snap == out.best_pll_dict
              better == Gt(snap.pred_ll, fitl.best_validation_ll)
          IN /\ fitl'.best_validation_ll = (IF better THEN snap.pred_ll
                                            ELSE fitl.best_validation_ll)
             /\ fitl'.best_Eb = (IF better THEN snap.best_Eb ELSE fitl.best_Eb)
             /\ fitl'.best_Et = (IF better THEN snap.best_Et ELSE fitl.best_Et)
             /\ pc' = "done" <=> fitl'.switch_idx = max_iter_fixed
             /\ pc' = "done" => (self'.Eb = fitl'.best_Eb /\ self'.Et = fitl'.best_Et)]_vars

\* fit has returned after all rounds; the last round tied with the best
\* one and the final expectations are the earlier round's
C13_Witness ==
  /\ Separately /\ pc = "done" /\ fitl.switch_idx = max_iter_fixed
  /\ out.best_pll_dict.pred_ll = fitl.best_validation_ll
  /\ self.Eb = fitl.best_Eb /\ self.Et = fitl.best_Et
  /\ self.Eb # out.best_pll_dict.best_Eb

\* the estimator after n whole iterations of a fit with default policies,
\* computed from the arguments of fit by the update rules alone
RECURSIVE ParamsAfter(_, _, _)
ParamsAfter(variant, c, n) ==
  IF n = 0
  THEN IF variant = "pmf"
       THEN PMF_init_users(PMF_init_items(NewSelf, c.beta_given, c.beta, c.categorywise),
                           c.theta_given)
       ELSE HPMF_init_users(HPMF_init_items(NewSelf, c.beta_given, c.beta))
  ELSE LET prev == ParamsAfter(variant, c, n - 1)
           f == [NewFrame("default", FALSE, c.zero_untrained_components, "None", "none")
                   EXCEPT !.i = n - 1]
       IN IF variant = "pmf"
          THEN PMF_items_branch(PMF_users_branch(prev, f, c).self, f, c).self
          ELSE HPMF_items_branch(HPMF_users_branch(prev, f, c).self, f, c).self

DefaultPolicies == cfg.item_fit_type = "default" /\ cfg.user_fit_type = "default"

\* C14: in a fit with default policies the shape, rate and expectation
\* matrices after n iterations are what the update rules give for the same
\* arguments with any other validation set; the validation set only decides
\* whether the fit goes on.
C14_ValidationNeverInfluencesUpdates ==
  (Started /\ DefaultPolicies /\ pc \in {"users", "eval", "done", "failed"})
    => LET n == IF pc = "users" THEN fr.i ELSE fr.i + 1
       IN \A v \in VadSets : self = ParamsAfter(ctor.variant, [cfg EXCEPT !.vad = v], n)

\* two iterations of a variational fit are done, under a validation set
\* that lets the fit go on
C14_Witness ==
  /\ DefaultPolicies /\ pc = "eval" /\ fr.i = 1 /\ cfg.vad # {}
  /\ self.nUsers = 2 /\ self.nItems = 2 /\ ~cfg.beta_given

\* C15: the log-likelihood a fit's call of _update returns is the one
\* evaluated last, on the state the estimator holds at the return, also
\* when the call contained the switch to a second run.
C15_ReportedIsFinalState ==
  (pc = "done" /\ ctor.variant = "pmf"
     /\ cfg.user_fit_type = "default" /\ out.returned)
    => out.pred_ll = h.last.pred_ll

\* C16: a fit of an estimator built with a hyperparameter that is not
\* positive ends with the outcome InvalidHyperparameter at its start, with
\* no shape or rate matrix allocated and no iteration run.
C16_InvalidHyperparameterRejected ==
  (Started /\ (ctor.a # "positive" \/ ctor.c # "positive"))
    => /\ pc = "failed" /\ err = "InvalidHyperparameter"
       /\ self = NewSelf /\ h.iters = 0

\* C17: a fixed matrix whose dimensions do not agree with the data and with
\* n_components is rejected when fit initialises, so _inner is never entered
\* with one and never reads a cell of another row or a cell outside a matrix.
C17_MismatchedShapeNeverReachesKernel ==
  pc \in {"kernel_returned", "crashed"} =>
    /\ ker.beta.ncols = ker.theta.nrows
    /\ ker.outcome = "returned"
    /\ \A i \in 1 .. Len(ker.data) : \A pr \in ker.data[i] :
          /\ pr[1].inside /\ pr[1].r = ker.rows[i]
          /\ pr[2].inside /\ pr[2].c = ker.cols[i]

\* the per-pair sum over k of A[rows[n], k] * B[k, cols[n]]
NaiveInner(A, B, rows, cols) ==
  [n \in 1 .. Len(rows) |-> {<<[inside |-> TRUE, r |-> rows[n], c |-> k],
           [inside |-> TRUE, r |-> k, c |-> cols[n]]>> : k \in 0 .. (A.ncols - 1)}]

PairOrders(n) == {f \in [1 .. n -> 1 .. n] : \A i, j \in 1 .. n : f[i] = f[j] => i = j}

\* C18: for A of shape N x K, B of shape K x M and in-range index lists,
\* _inner returns for every pair n the sum over k of A[rows[n], k] *
\* B[k, cols[n]]; an entry depends on its own pair only, so permuting the
\* pairs permutes the result, and an empty list gives an empty result.
C18_InnerIsNaivePerPairSum ==
  (pc = "kernel_returned" /\ ker.beta.ncols = ker.theta.nrows) =>
    LET n == Len(ker.rows) IN
    /\ Len(ker.data) = n
    /\ ker.data = NaiveInner(ker.beta, ker.theta, ker.rows, ker.cols)
    /\ \A i \in 1 .. n :
          ker.data[i] = inner(ker.beta, ker.theta, <<ker.rows[i]>>, <<ker.cols[i]>>)[1]
    /\ \A f \in PairOrders(n) :
          inner(ker.beta, ker.theta, [i \in 1 .. n |-> ker.rows[f[i]]],
                [i \in 1 .. n |-> ker.cols[f[i]]])
            = [i \in 1 .. n |-> ker.data[f[i]]]
    /\ (n = 0 => ker.data = <<>>)

\* a returned call on matrices of agreeing shapes with K # M and two index
\* pairs whose results differ
C18_Witness ==
  /\ pc = "kernel_returned"
  /\ ker.beta.ncols = ker.theta.nrows
  /\ ker.theta.nrows # ker.theta.ncols
  /\ Len(ker.rows) = 2
  /\ <<ker.rows[1], ker.cols[1]>> # <<ker.rows[2], ker.cols[2]>>
  /\ ker.data[1] # ker.data[2]

\* C19: in PoissonMF's masked item update every entry (i, k) the call writes
\* receives the rate d + sum over u of Et[k, u], the sum of its own
\* component k, as the unmasked update gives column k.
C19_MaskedRateIsOwnComponent ==
  (ctor.variant = "pmf" /\ pc = "direct") =>
    \A p \in Pos :
       (self.rho_b[p].t = "rho_b" /\ self.rho_b[p].n = self.tick) => self.rho_b[p].c = p[2]

\* C20: the item factor _update_users multiplies into the shape of the users
\* is Eb exactly when the item side is fixed (no item shape and rate), and
\* exp(Elogb) whenever the item side is variational.
C20_UserUpdateItemFactor ==
  self.gamma_t.t = "gamma_t" =>
    (self.gamma_t.itf = "Eb" <=> (self.gamma_b = NoneMat /\ self.rho_b = NoneMat))

\* C21: iteration 0 of a run of _update never ends the run by convergence,
\* whatever min_iter is and whatever the first log-likelihood is: old_pll is
\* -inf, so the improvement is not below tol; when the first log-likelihood
\* is finite and max_iter > 1 the run goes on to iteration 1.
C21_FirstIterationNeverConverges ==
  (h.iters > 0 /\ h.last.i = 0) =>
    /\ h.last.old_pll = NegInf
    /\ h.last.how \notin {"converged", "phase"}
    /\ (h.last.pred_ll.k = "fin" /\ ctor.max_iter > 1) =>
         (h.last.how = "continue" /\ fr.i = 1)

\* iteration 0 of a run with min_iter < 0 evaluated to a finite number and
\* the run went on
C21_Witness ==
  /\ h.iters > 0 /\ h.last.i = 0
  /\ ctor.min_iter < 0
  /\ h.last.pred_ll.k = "fin"
  /\ h.last.how = "continue"

\* a fit with default policies and neither side supplied
BothVariational ==
  Started /\ DefaultPolicies /\ ~cfg.beta_given /\ ~cfg.theta_given

\* C22: in every iteration of a fit with default policies and both sides
\* variational the user update completes before the item update starts, the
\* item update reads the user expectations that user update produced, and
\* the evaluation runs once, after both updates; its result is the one the
\* stop test of the iteration uses.
C22_UsersThenItemsThenEvaluation ==
  BothVariational =>
    /\ pc \in {"users", "items", "eval", "done", "failed"}
    /\ pc \in {"users", "done", "failed"} =>
         (self.nUsers = h.iters /\ self.nItems = h.iters)
    /\ pc = "items" =>
         /\ self.nUsers = h.iters + 1 /\ self.nItems = h.iters
         /\ self.gamma_t.t = "gamma_t" /\ self.gamma_t.n = self.tick
         /\ self.Et = compute_expectations_mean_t(self.gamma_t, self.rho_t)
    /\ pc = "eval" =>
         /\ self.nUsers = h.iters + 1 /\ self.nItems = h.iters + 1
         /\ self.gamma_t.n = self.tick - 1
         /\ \A p \in Pos :
               /\ self.gamma_b[p].t = "gamma_b" /\ self.gamma_b[p].n = self.tick
               /\ self.gamma_b[p].src = self.gamma_t.n
               /\ self.rho_b[p].n = self.tick /\ self.rho_b[p].src = self.gamma_t.n
         /\ self.Eb = compute_expectations_mean(self.gamma_b, self.rho_b)
    /\ (h.iters > 0 /\ pc \in {"users", "done"}) => fr.pred_ll = h.last.pred_ll

\* the second iteration of such a fit is about to evaluate
C22_Witness ==
  BothVariational /\ pc = "eval" /\ fr.i = 1 /\ self.nItems = 2

\* a step of an HPoissonMF fit in which _update_users returned
HPMF_UserUpdateDone ==
  ctor.variant = "hpmf" /\ pc = "users" /\ pc' = "items"

\* a step of an HPoissonMF fit in which _update_items returned
HPMF_ItemUpdateDone ==
  ctor.variant = "hpmf" /\ pc' = "eval" /\ self'.nItems = self.nItems + 1

\* C23: in HPoissonMF every user update computes its rate with the
\* user-activity expectation of the previous refresh and then recomputes
\* that expectation (shape a_ksi + K*a, rate b_ksi + sum_k Et[k, u]) from the
\* new Et; every item update does the same with the item-popularity
\* expectation (shape c_eta + K*c, rate d_eta + sum_k Eb[i, k]); no other
\* step changes either, and the item one is never computed while the item
\* side is fixed.
C23_HyperpriorsRefreshedAfterUpdates ==
  [][/\ HPMF_UserUpdateDone =>
          /\ self'.rho_t.hyp = VerH(self.Eksi)
          /\ self'.Eksi.f = "mean"
          /\ self'.Eksi.s.t = "a_ksi+K*a"
          /\ self'.Eksi.r.t = "rho_ksi" /\ self'.Eksi.r.uf = "Et"
          /\ self'.Eksi.r.n = self'.tick /\ self'.Eksi.r.src = VerT(self')
          /\ VerT(self') = self'.tick
          /\ self'.Eeta = self.Eeta
     /\ HPMF_ItemUpdateDone =>
          /\ \A p \in Pos : self'.rho_b[p].n = self'.tick =>
                               self'.rho_b[p].hyp = VerH(self.Eeta)
          /\ self'.Eeta.f = "mean"
          /\ self'.Eeta.s.t = "c_eta+K*c"
          /\ self'.Eeta.r.t = "rho_eta" /\ self'.Eeta.r.itf = "Eb"
          /\ self'.Eeta.r.n = self'.tick /\ self'.Eeta.r.src = self'.ver_b
          /\ self'.ver_b = self'.tick
          /\ self'.Eksi = self.Eksi
     /\ (ctor.variant = "hpmf" /\ Started /\ ~HPMF_UserUpdateDone /\ ~HPMF_ItemUpdateDone) =>
          (self'.Eksi = self.Eksi /\ self'.Eeta = self.Eeta)
     /\ (ctor.variant = "hpmf" /\ self'.gamma_b = NoneMat) => self'.Eeta = NoneE
    ]_vars

\* the second iteration of an HPoissonMF fit with variational items has run
\* both updates: their rates hold the expectations refreshed in the first
C23_Witness ==
  /\ ctor.variant = "hpmf" /\ pc = "eval" /\ fr.i = 1
  /\ self.rho_t.hyp = self.tick - 3
  /\ \A p \in Pos : self.rho_b[p].hyp = self.tick - 2
  /\ self.Eksi.r.n = self.tick - 1 /\ self.Eeta.r.n = self.tick

\* C24: a fit under a category-first policy with zero_untrained_components
\* that returns has restored the cached non-priority entries and has run the
\* second run: none of them still holds the clamp constant, also when the
\* first run ended by reaching max_iter.
C24_ReturnedFitHasRestored ==
  (CategoryFirst /\ cfg.zero_untrained_components /\ pc = "done") =>
    /\ h.runs = 2
    /\ \A p \in NonPriority : self.gamma_b[p] # small_num /\ self.rho_b[p] # small_num

\* C25: when fit is given a category mask together with categorywise, the
\* item side is initialised as variational in both variants: item shape,
\* rate and log-expectation are present and the mask is not installed as
\* the item expectation, so that the first masked item update can execute.
C25_MaskWithCategoryPolicyIsVariational ==
  (Started /\ cfg.beta_given /\ cfg.categorywise) =>
    /\ self.gamma_b # NoneMat /\ self.rho_b # NoneMat /\ self.Elogb # NoneEMat
    /\ self.Eb # ObsMat(cfg.beta)
    /\ (pc = "crashed" /\ cfg.item_fit_type # "default" /\ self.nItems = 1) =>
         err \notin {"np.exp(Elogb=None)", "None[mask]", "None.shape"}

\* C26: a fit under converge_separately reaches its first round whether or
\* not theta is supplied: every variable the round loop hands to _update is
\* bound, so the fit never ends, before an update was called, with the
\* exception of reading an unbound one.
C26_SeparatelyReachesFirstRound ==
  (Started /\ Separately) =>
    ~(/\ pc = "crashed" /\ h.iters = 0 /\ self.nUsers = 0 /\ self.nItems = 0
      /\ err = "UnboundLocalError: observed_user_preferences")

\* C27: a fit with a non-default item policy but without a category mask, or
\* with categorywise off, does not silently freeze the items: every
\* iteration of its run performs an item update, or the fit is rejected; it
\* never returns without any item update.
C27_PolicyWithoutMaskStillUpdatesItems ==
  (Started /\ cfg.user_fit_type = "default" /\ cfg.item_fit_type # "default"
     /\ ~(cfg.beta_given /\ cfg.categorywise)) =>
    /\ pc = "eval" => self.nItems = h.iters + 1
    /\ pc = "done" => (self.nItems > 0 /\ self.nItems = h.iters)

\* C28: a run of _update started with update = in_category or out_category
\* never starts a further run when it converges, so at most two calls of
\* _update are ever nested; and when the second run returns, the first run
\* returns at once, with no further update, iteration or evaluation.
C28_PhaseNestingBounded ==
  [][/\ Len(stack') <= 1 /\ h'.runs <= 2
     /\ (stack' # <<>> /\ stack = <<>>) =>
          (fr.update = "default" /\ fr'.update \in {"in_category", "out_category"})
     /\ (stack # <<>> /\ pc' \notin {"crashed", "failed"}) =>
          /\ fr.update \in {"in_category", "out_category"}
          /\ h'.iters # h.iters => h'.last.how # "phase"
          /\ stack' \in {stack, <<>>}
     /\ (stack # <<>> /\ stack' = <<>>) =>
          /\ pc = "eval" /\ pc' = "done"
          /\ self' = self /\ fr' = Head(stack)
          /\ h'.iters = h.iters + 1
     /\ pc = "done" => UNCHANGED vars
    ]_vars

\* a second run ended by its own convergence and the fit returned
C28_Witness ==
  /\ pc = "done" /\ h.runs = 2
  /\ h.last.how = "converged"
  /\ h.last.update \in {"in_category", "out_category"}
  /\ fr.update = "default"

\* the arrays a snapshot names hold what they held when it was recorded
SnapIntact(d) ==
  d.has => \A n \in {"Eb", "Elogb", "Et", "Elogt"} :
              d.ref[n] # 0 => rf.mem[d.ref[n]] = d.at[n]

\* C29: a recorded best snapshot is immutable: no later user update, item
\* update (masked, in place, or unmasked), clamp or restore, in the same
\* round or a later one, changes the expectation arrays it holds, so what
\* is loaded back from it, and what fit ends with, is what was evaluated
\* when it was recorded.
C29_SnapshotImmutable ==
  /\ SnapIntact(rf.dict)
  /\ \A k \in 1 .. Len(rf.suspended) : SnapIntact(rf.suspended[k].dict)
  /\ SnapIntact(rf.kept)
  /\ (rf.pc = "done" /\ rf.sep) =>
       (rf.mem[rf.Eb] = rf.kept.at.Eb /\ rf.mem[rf.Et] = rf.kept.at.Et)

\* after a snapshot was recorded, in a later round, a masked item update
\* wrote the item shape in place and the items were recomputed
C29_Witness ==
  /\ rf.kept.has /\ rf.switch_idx > 0
  /\ rf.Eb # rf.kept.ref.Eb
  /\ \E cell \in {"in", "out"} : rf.mem[rf.gamma_b][cell] > rf.kept.op

====
